---------------------------- MODULE Spec2Model ----------------------------
(***************************************************************************)
(* Model of streamlit_app.py: the dashboard script, its two memoized       *)
(* loaders (load_official_datasets, build_user_input_dataset) and the      *)
(* future-date cutoff.                                                     *)
(*                                                                         *)
(* Encoding.                                                               *)
(*  - Time is in seconds of Seoul wall-clock time since 2015-01-01T00:00   *)
(*    +09:00.  A tz-aware timestamp is that instant; a tz-naive timestamp  *)
(*    is the same count read off a wall clock without a zone.              *)
(*  - A DataFrame with a date column is [tz, rows]: tz is the dtype of the *)
(*    date column (datetime64[ns] = "naive", datetime64[ns, tz] = "aware") *)
(*    and rows is the sequence of its records.                             *)
(*  - A cell is a record [k, v]: k says what the cell holds.               *)
(*  - Korean message texts are romanized word by word (TLA+ strings are    *)
(*    ASCII): silpae = failure, seonggong = success.                       *)
(***************************************************************************)
EXTENDS Integers, Sequences, FiniteSets, TLC

VARIABLES
    now,          \* wall clock at the current script run (seoul_now)
    runs,         \* number of script runs started so far
    pc,           \* position of the script run: "start" (line 252), "try2", "try3",
                  \* "post" (lines 119, 152, 184 of the running body), "loaded" (past
                  \* line 252), "tab2" (line 364), "halted" (uncaught exception),
                  \* "done"
    CUTOFF,       \* module global CUTOFF of the current script run
    cache,        \* entry of st.cache_data(ttl=3600) for load_official_datasets
    result,       \* outcome of the call at line 252: returned bundle or raised
    userResult,   \* outcome of the call at line 372
    reqlog,       \* the GETs issued by the call at line 252, in order
    precip_df,    \* local of load_official_datasets while its body runs
    school_actions,    \* local of load_official_datasets while its body runs
    school_damage_geo, \* local of load_official_datasets while its body runs
    messages,     \* the local list `messages` of the last executed body
    fellBack,     \* per source: did the last executed body take the except branch
    resp,         \* what the three remote answers to the last executed body were like
    seedUsed,     \* state of np.random the last executed body drew from
    lastExecAt,   \* time the body of load_official_datasets last executed, or -1
    prevFb,       \* generator state of the precipitation fallback an earlier run of
                  \* the body built under the cutoff of the current script run
    downloads     \* the CSV files the current script run has offered so far

vars == <<now, runs, pc, CUTOFF, cache, result, userResult, reqlog, precip_df,
          school_actions, school_damage_geo, messages, fellBack, resp, seedUsed,
          lastExecAt, prevFb, downloads>>

---------------------------------------------------------------------------
(* Bounds of the model *)

MaxRows == 1
MaxFeatures == 1
MaxRuns == 3
MaxSeed == 1

---------------------------------------------------------------------------
(* Calendar: pd.to_datetime("YYYY-MM-DD") as a day count, then seconds *)

EpochYear == 2015
SecondsPerDay == 24 * 60 * 60

IsLeap(y) == (y % 4 = 0 /\ y % 100 # 0) \/ y % 400 = 0

DaysInYear(y) == IF IsLeap(y) THEN 366 ELSE 365

DaysInMonth(y, m) ==
    IF m = 2 THEN (IF IsLeap(y) THEN 29 ELSE 28)
    ELSE IF m \in {4, 6, 9, 11} THEN 30 ELSE 31

RECURSIVE DaysBeforeYear(_)
DaysBeforeYear(y) == IF y <= EpochYear THEN 0 ELSE DaysBeforeYear(y - 1) + DaysInYear(y - 1)

RECURSIVE DaysBeforeMonth(_, _)
DaysBeforeMonth(y, m) == IF m <= 1 THEN 0 ELSE DaysBeforeMonth(y, m - 1) + DaysInMonth(y, m - 1)

\* midnight of the calendar day ymd = <<year, month, day>>
ParseDate(ymd) ==
    (DaysBeforeYear(ymd[1]) + DaysBeforeMonth(ymd[1], ymd[2]) + (ymd[3] - 1)) * SecondsPerDay

\* timezone(timedelta(hours=9)) / datetime.now(SEOUL_TZ): the clock already runs in +09:00
seoul_now == now

\* datetime(year, month, day, tzinfo=SEOUL_TZ) of the given instant: a tz-aware value
seoul_midnight_today(t) == (t \div SecondsPerDay) * SecondsPerDay

---------------------------------------------------------------------------
(* Cells *)

Ts(t)  == [k |-> "ts",  t |-> t]
NaT    == [k |-> "nat", t |-> 0]

Num(n) == [k |-> "num", v |-> n]
NaN    == [k |-> "nan", v |-> 0]
Str    == [k |-> "str", v |-> 0]      \* a non-numeric string, e.g. "n/a"

\* what a response carries in a date field
Iso(ymd)    == [k |-> "iso", ymd |-> ymd]         \* "YYYY-MM-DD", with or without offset
BadDate     == [k |-> "bad", ymd |-> <<0, 0, 0>>] \* text that is no date
MissingDate == [k |-> "missing", ymd |-> <<0, 0, 0>>] \* the record has no such key

\* what a response carries in a value field; Absent: the record has no such key
Absent == [k |-> "missing", v |-> 0]

\* pd.to_datetime(x, errors='coerce') on one cell
to_datetime_cell(c) == IF c.k = "iso" THEN Ts(ParseDate(c.ymd)) ELSE NaT

\* dtype pd.to_datetime gives the column: tz-aware only when it parsed an offset
to_datetime_tz(cells, offset) ==
    IF offset /\ \E i \in 1..Len(cells) : cells[i].k = "iso" THEN "aware" ELSE "naive"

\* a JSON/CSV value cell as pandas holds it: null and missing become NaN
value_cell(c) == IF c.k \in {"missing", "nan"} THEN NaN ELSE c

\* DataFrame.dropna() on the columns date, value: rows with NaT or NaN go
RECURSIVE dropna(_)
dropna(rows) ==
    IF rows = <<>> THEN <<>>
    ELSE IF Head(rows).date.k # "nat" /\ Head(rows).value.k # "nan"
         THEN <<Head(rows)>> \o dropna(Tail(rows))
         ELSE dropna(Tail(rows))

\* df[df['date'] < cutoff] on a tz-aware column: NaT compares False
RECURSIVE rows_before(_, _)
rows_before(rows, cutoff) ==
    IF rows = <<>> THEN <<>>
    ELSE IF Head(rows).date.k = "ts" /\ Head(rows).date.t < cutoff
         THEN <<Head(rows)>> \o rows_before(Tail(rows), cutoff)
         ELSE rows_before(Tail(rows), cutoff)

SeqsUpTo(S, n) == UNION {[1..k -> S] : k \in 0..n}

---------------------------------------------------------------------------
(* Status messages, word by word *)

MsgPrecipOk   == <<"NASA", "GPM", "deiteo", "rodeu", "seonggong">>
MsgPrecipFail == <<"NASA/NOAA", "hochul", "silpae", "naebu", "yesi", "deiteoro", "daeche">>
MsgSchoolOk   == <<"gyoyukbu", "hakgyojochi", "deiteo", "rodeu", "seonggong">>
MsgSchoolFail == <<"gyoyukbu/nyuseu", "API", "hochul", "silpae", "naebu", "yesi", "deiteoro", "daeche">>
MsgGeoOk      == <<"jiri", "deiteo", "rodeu", "seonggong">>
MsgGeoFail    == <<"jiri/wichi", "deiteo", "rodeu", "silpae", "naebu", "yesi", "deiteoro", "daeche">>

---------------------------------------------------------------------------
(* Source 1: precipitation JSON, lines 90-116 *)

\* np.random.uniform(20, 80) for row i, drawn from the generator state `seed`
uniform(seed, i) == 20 + ((seed * 37 + i * 11) % 60)

\* pd.date_range("2015-01-01", "2025-07-01", freq="YS") with the sampled values
PrecipFallback(seed) ==
    [tz   |-> "naive",
     rows |-> [i \in 1..11 |->
                 [date  |-> Ts(ParseDate(<<EpochYear + (i - 1), 1, 1>>)),
                  value |-> Num(uniform(seed, i - 1) + (i - 1) * 3)]]]

\* pd.json_normalize(data): the columns are the keys some record carries
PrecipHasColumn(rows, col) == \E i \in 1..Len(rows) : rows[i][col].k # "missing"

\* lines 101-103: rename precip -> value, coerce the dates, keep date/value, dropna
PrecipParse(r) ==
    [tz   |-> to_datetime_tz([i \in 1..Len(r.rows) |-> r.rows[i].date], r.offset),
     rows |-> dropna([i \in 1..Len(r.rows) |->
                        [date  |-> to_datetime_cell(r.rows[i].date),
                         value |-> value_cell(r.rows[i].precip)]])]

\* does the try block of lines 90-108 raise
PrecipRaises(r) ==
    \/ r.exc                                   \* requests.get raised
    \/ r.status # 200                          \* line 108
    \/ ~r.json                                 \* r.json() raised
    \/ ~PrecipHasColumn(r.rows, "date")        \* line 105
    \/ ~PrecipHasColumn(r.rows, "precip")      \* line 105

\* TryPrecip with a second GET after a failed one
TryPrecipRetry(r, seed) ==
    IF PrecipRaises(r)
    THEN [df |-> PrecipFallback(seed), msgs |-> <<MsgPrecipFail>>,
          fellBack |-> TRUE, gets |-> <<"precip", "precip">>]
    ELSE [df |-> PrecipParse(r), msgs |-> <<MsgPrecipOk>>,
          fellBack |-> FALSE, gets |-> <<"precip">>]

TryPrecip(r, seed) ==
    IF PrecipRaises(r)
    THEN [df |-> PrecipFallback(seed), msgs |-> <<MsgPrecipFail>>,
          fellBack |-> TRUE, gets |-> <<"precip">>]
    ELSE [df |-> PrecipParse(r), msgs |-> <<MsgPrecipOk>>,
          fellBack |-> FALSE, gets |-> <<"precip">>]

---------------------------------------------------------------------------
(* Source 2: school-action CSV, lines 119-149 *)

SchoolFallback ==
    [tz   |-> "naive",
     rows |-> << [date |-> Ts(ParseDate(<<2023, 7, 16>>)), value |-> Num(24)],
                 [date |-> Ts(ParseDate(<<2023, 8, 10>>)), value |-> Num(5)],
                 [date |-> Ts(ParseDate(<<2024, 7, 20>>)), value |-> Num(40)],
                 [date |-> Ts(ParseDate(<<2025, 7, 18>>)), value |-> Num(247)],
                 [date |-> Ts(ParseDate(<<2025, 3, 19>>)), value |-> Num(12)] >>]

\* select_dtypes(include='number') on the second column: read_csv types a column
\* as a number when every cell is a number or empty, and it has a row
SchoolNumericCols(r) ==
    IF Len(r.rows) > 0 /\ \A i \in 1..Len(r.rows) : r.rows[i].v.k \in {"num", "nan"}
    THEN {r.valCol} ELSE {}

\* lines 131-137: the value of row i
SchoolValue(r, i) ==
    IF r.valCol = "value" THEN value_cell(r.rows[i].v)
    ELSE IF SchoolNumericCols(r) # {}
         THEN Num(IF r.rows[i].v.k = "num" THEN r.rows[i].v.v ELSE 0)   \* sum(axis=1) skips NaN
         ELSE Num(0)

\* lines 124-138: the first column is taken for the date when none is named date
SchoolParse(r) ==
    [tz   |-> to_datetime_tz([i \in 1..Len(r.rows) |-> r.rows[i].date], r.offset),
     rows |-> dropna([i \in 1..Len(r.rows) |->
                        [date  |-> to_datetime_cell(r.rows[i].date),
                         value |-> SchoolValue(r, i)]])]

SchoolRaises(r) ==
    \/ r.exc                 \* requests.get raised
    \/ r.status # 200        \* line 141
    \/ r.empty               \* pd.read_csv raises on a body without a header

TrySchool(r) ==
    IF SchoolRaises(r)
    THEN [df |-> SchoolFallback, msgs |-> <<MsgSchoolFail>>,
          fellBack |-> TRUE, gets |-> <<"school">>]
    ELSE [df |-> SchoolParse(r), msgs |-> <<MsgSchoolOk>>,
          fellBack |-> FALSE, gets |-> <<"school">>]

---------------------------------------------------------------------------
(* Source 3: school-damage GeoJSON, lines 152-182 *)

Deg(m)  == [k |-> "deg", v |-> m]       \* a coordinate, in thousandths of a degree
NoCoord == [k |-> "none", v |-> 0]      \* None

GeoFallback ==
    [cols |-> <<"name", "lat", "lon", "value">>,
     rows |-> << [name |-> "Cheongju", lat |-> Deg(36642), lon |-> Deg(127489), value |-> 11],
                 [name |-> "Jincheon", lat |-> Deg(36873), lon |-> Deg(127327), value |-> 3],
                 [name |-> "Okcheon",  lat |-> Deg(36305), lon |-> Deg(127654), value |-> 2],
                 [name |-> "Yeongdong", lat |-> Deg(36118), lon |-> Deg(127761), value |-> 2],
                 [name |-> "Goesan",   lat |-> Deg(36606), lon |-> Deg(127957), value |-> 2] >>]

\* lines 161-169 for one feature
GeoRow(f) ==
    [name  |-> IF f.props = "full" THEN f.name ELSE "hakgyo",
     lat   |-> IF f.geom = "point" THEN Deg(f.lat) ELSE NoCoord,
     lon   |-> IF f.geom = "point" THEN Deg(f.lon) ELSE NoCoord,
     value |-> IF f.props = "full" THEN f.count ELSE 1]

\* pd.DataFrame(rows): no feature, no column
GeoParse(r) ==
    [cols |-> IF r.feats = <<>> THEN <<>> ELSE <<"lon", "lat", "value", "name">>,
     rows |-> [i \in 1..Len(r.feats) |-> GeoRow(r.feats[i])]]

GeoRaises(r) ==
    \/ r.exc                                   \* requests.get raised
    \/ r.status # 200                          \* line 173
    \/ r.kind = "notjson"                      \* r3.json() raised
    \/ r.kind = "array"                        \* a list has no .get
    \/ \E i \in 1..Len(r.feats) :
          r.feats[i].geom \in {"null", "short"}   \* None.get / coords[1] of a short list

\* TryGeo with the success message appended before the features are read
TryGeoEarlyMessage(r) ==
    IF r.exc \/ r.status # 200 \/ r.kind = "notjson"
    THEN [df |-> GeoFallback, msgs |-> <<MsgGeoFail>>,
          fellBack |-> TRUE, gets |-> <<"geo">>]
    ELSE IF GeoRaises(r)
    THEN [df |-> GeoFallback, msgs |-> <<MsgGeoOk, MsgGeoFail>>,
          fellBack |-> TRUE, gets |-> <<"geo">>]
    ELSE [df |-> GeoParse(r), msgs |-> <<MsgGeoOk>>,
          fellBack |-> FALSE, gets |-> <<"geo">>]

TryGeo(r) ==
    IF GeoRaises(r)
    THEN [df |-> GeoFallback, msgs |-> <<MsgGeoFail>>,
          fellBack |-> TRUE, gets |-> <<"geo">>]
    ELSE [df |-> GeoParse(r), msgs |-> <<MsgGeoOk>>,
          fellBack |-> FALSE, gets |-> <<"geo">>]

---------------------------------------------------------------------------
(* Post-processing and the future-date filter, lines 184-203 *)

Sources == <<"precip", "school", "geo">>

\* CUTOFF is built with tzinfo=SEOUL_TZ (line 45): a tz-aware datetime
CutoffTz == "aware"

\* pandas orders a datetime column against a datetime scalar only when both are
\* tz-aware or both tz-naive; otherwise `<` raises TypeError
DatetimeCompareRaises(colTz, scalarTz) == colTz # scalarTz

\* lines 185-188: the dates are coerced again in place; the dropna of line 188
\* is bound to the loop variable only and leaves the table as it was
Standardize(df) ==
    [tz   |-> df.tz,
     rows |-> [i \in 1..Len(df.rows) |->
                 [date  |-> IF df.rows[i].date.k = "ts" THEN df.rows[i].date ELSE NaT,
                  value |-> df.rows[i].value]]]

\* lines 190-194: df[df['date'] < CUTOFF].copy()
remove_future_dates(df, cutoff) ==
    IF DatetimeCompareRaises(df.tz, CutoffTz)
    THEN [raised |-> TRUE,  df |-> df]
    ELSE [raised |-> FALSE, df |-> [tz |-> df.tz, rows |-> rows_before(df.rows, cutoff)]]

EmptyTable == [tz |-> "naive", rows |-> <<>>]
EmptyGeo   == [cols |-> <<>>, rows |-> <<>>]
NoBundle   == [precip_ts |-> EmptyTable, school_actions |-> EmptyTable,
               school_damage_geo |-> EmptyGeo, messages |-> <<>>]
NoResult   == [status |-> "none", bundle |-> NoBundle]

\* lines 184-203 on the three tables the try blocks left: filter, then return
finish_load(p_df, s_df, g_df, msgs, cutoff) ==
    LET pf == remove_future_dates(Standardize(p_df), cutoff)      \* line 195
        sf == remove_future_dates(Standardize(s_df), cutoff)      \* line 196
    IN  IF pf.raised \/ sf.raised
        THEN [status |-> "raised", bundle |-> NoBundle]
        ELSE [status |-> "returned",
              bundle |-> [precip_ts |-> pf.df, school_actions |-> sf.df,
                          school_damage_geo |-> g_df, messages |-> msgs]]

---------------------------------------------------------------------------
(* build_user_input_dataset, lines 209-242 *)

UserRows ==
    << [date |-> <<2023, 7, 16>>, value |-> 24,  group |-> "closure",  note |-> "2023-07 rain"],
       [date |-> <<2023, 8, 9>>,  value |-> 5,   group |-> "closure",  note |-> "typhoon Khanun"],
       [date |-> <<2025, 7, 18>>, value |-> 247, group |-> "schedule", note |-> "2025-07 rain"],
       [date |-> <<2025, 3, 19>>, value |-> 12,  group |-> "closure",  note |-> "2025-03 snow"],
       [date |-> <<2023, 7, 16>>, value |-> 11,  group |-> "Cheongju", note |-> "Chungbuk Cheongju"],
       [date |-> <<2023, 7, 16>>, value |-> 3,   group |-> "Jincheon", note |-> "Chungbuk Jincheon"],
       [date |-> <<2023, 7, 16>>, value |-> 2,   group |-> "Okcheon",  note |-> "Chungbuk Okcheon"],
       [date |-> <<2023, 7, 16>>, value |-> 2,   group |-> "Yeongdong", note |-> "Chungbuk Yeongdong"],
       [date |-> <<2023, 7, 16>>, value |-> 2,   group |-> "Goesan",   note |-> "Chungbuk Goesan"],
       [date |-> <<2023, 7, 16>>, value |-> 1,   group |-> "Jecheon",  note |-> "Chungbuk Jecheon"],
       [date |-> <<2023, 7, 16>>, value |-> 1,   group |-> "Boeun",    note |-> "Chungbuk Boeun"] >>

\* lines 235-239: the frame before the filter; the strings carry no offset
UserFrame ==
    [tz   |-> "naive",
     rows |-> [i \in 1..Len(UserRows) |->
                 [date  |-> Ts(ParseDate(UserRows[i].date)),
                  value |-> Num(UserRows[i].value),
                  group |-> UserRows[i].group,
                  note  |-> UserRows[i].note]]]

\* line 241: df[df['date'] < CUTOFF].reset_index(drop=True)
build_user_input_dataset(cutoff) ==
    IF DatetimeCompareRaises(UserFrame.tz, CutoffTz)
    THEN [status |-> "raised", df |-> EmptyTable]
    ELSE [status |-> "returned",
          df |-> [tz |-> UserFrame.tz, rows |-> rows_before(UserFrame.rows, cutoff)]]

NoUserResult == [status |-> "none", df |-> EmptyTable]

---------------------------------------------------------------------------
(* The two tabs and their CSV downloads, lines 73-75 and 265-458 *)

\* DataFrame.to_csv(index=False): a header line of the column names, then one
\* line per row that holds the cells of the row in the order of the columns
to_csv(df) ==
    [header |-> df.cols,
     lines  |-> [i \in 1..Len(df.rows) |->
                   [j \in 1..Len(df.cols) |-> df.rows[i][df.cols[j]]]]]

\* lines 73-75: the button offers the file; records is len(df) of the table it got
get_csv_download_link(df, filename) ==
    [file |-> filename, records |-> Len(df.rows), csv |-> to_csv(df)]

\* the day count of the start of the month (or, for unit "yearly", of the year)
\* that holds the day d days after the first of month m of year y, itself day
\* number `first`
RECURSIVE PeriodFloor(_, _, _, _, _)
PeriodFloor(y, m, d, first, unit) ==
    IF m = 1 /\ d >= DaysInYear(y)
    THEN PeriodFloor(y + 1, 1, d - DaysInYear(y), first + DaysInYear(y), unit)
    ELSE IF unit = "yearly" \/ d < DaysInMonth(y, m) THEN first
    ELSE PeriodFloor(y, m + 1, d - DaysInMonth(y, m), first + DaysInMonth(y, m), unit)

\* line 312: the options of the selectbox (ilbyeol, wolbyeol, yeonbyeol)
AggOptions == {"daily", "monthly", "yearly"}

\* lines 314-319: dt.to_period('M') / ('Y') .dt.to_timestamp(), or dt.floor('D')
period_start(t, agg_opt) ==
    IF agg_opt = "daily" THEN (t \div SecondsPerDay) * SecondsPerDay
    ELSE PeriodFloor(EpochYear, 1, t \div SecondsPerDay, 0, agg_opt) * SecondsPerDay

\* the sum of the numbers in the value cells of the rows picked by idx
RECURSIVE SumCells(_, _)
SumCells(rows, idx) ==
    IF idx = {} THEN 0
    ELSE LET i == CHOOSE j \in idx : TRUE
         IN  (IF rows[i].value.k = "num" THEN rows[i].value.v ELSE 0)
             + SumCells(rows, idx \ {i})

\* sum() of one group: numbers add up, strings of an object column concatenate
group_sum(rows, idx) ==
    IF \E i \in idx : rows[i].value.k = "str" THEN Str ELSE Num(SumCells(rows, idx))

\* sort_values: the elements of a set of instants in ascending order
RECURSIVE Ascending(_)
Ascending(S) ==
    IF S = {} THEN <<>>
    ELSE LET m == CHOOSE x \in S : \A y \in S : x <= y
         IN  <<m>> \o Ascending(S \ {m})

\* line 320: groupby('period', as_index=False)['value'].sum().sort_values('period')
df_agg(df, agg_opt) ==
    LET period  == [i \in 1..Len(df.rows) |-> period_start(df.rows[i].date.t, agg_opt)]
        periods == Ascending({ period[i] : i \in 1..Len(df.rows) })
    IN  [cols |-> <<"period", "value">>,
         rows |-> [n \in 1..Len(periods) |->
                     [period |-> Ts(periods[n]),
                      value  |-> group_sum(df.rows,
                                   { i \in 1..Len(df.rows) :
                                       period[i] = periods[n] })]]]

\* line 284: the moving-average slider runs from 1 to 12; 1 plots the raw values
WindowChoices == {1, 2}

\* lines 288-289: rolling(window).mean() is taken only for a window above 1, and
\* raises DataError on a value column of dtype object (one holding a string)
RollingRaises(df, window) ==
    window > 1 /\ \E i \in 1..Len(df.rows) : df.rows[i].value.k = "str"

ColumnSet(df) == { df.cols[j] : j \in 1..Len(df.cols) }

\* lines 265-360: what tab 1 offers for download, unless drawing it raised
render_tab1(b, agg_opt, window) ==
    IF b.precip_ts.rows # <<>> /\ RollingRaises(b.precip_ts, window)
    THEN [raised |-> TRUE, downloads |-> <<>>]
    ELSE [raised |-> FALSE,
          downloads |->
            (IF b.school_actions.rows # <<>>                               \* line 309
             THEN << get_csv_download_link(df_agg(b.school_actions, agg_opt),
                                           "public_school_actions_agg.csv") >>
             ELSE <<>>)
            \o
            (IF /\ b.school_damage_geo.rows # <<>>                         \* line 328
                /\ {"lat", "lon"} \subseteq ColumnSet(b.school_damage_geo) \* line 332
             THEN << get_csv_download_link(b.school_damage_geo,
                                           "public_school_damage_geo.csv") >>
             ELSE <<>>)]

\* lines 425-433: the groups that coord_map places, in thousandths of a degree
coord_map ==
    [Cheongju  |-> <<36642, 127489>>, Jincheon |-> <<36873, 127327>>,
     Okcheon   |-> <<36305, 127654>>, Yeongdong |-> <<36118, 127761>>,
     Goesan    |-> <<36606, 127957>>, Jecheon  |-> <<37128, 128194>>,
     Boeun     |-> <<36487, 127721>>]

\* the rows of a table that satisfy a membership test on the group, in order
RECURSIVE rows_in_groups(_, _)
rows_in_groups(rows, groups) ==
    IF rows = <<>> THEN <<>>
    ELSE IF Head(rows).group \in groups
         THEN <<Head(rows)>> \o rows_in_groups(Tail(rows), groups)
         ELSE rows_in_groups(Tail(rows), groups)

\* line 379: the groups of the user table; the multiselect starts with all chosen
UserGroups(df) == { df.rows[i].group : i \in 1..Len(df.rows) }

\* line 385-387: the rows inside the default date range, narrowed to the chosen
\* groups unless none is chosen
df_filtered(df, sel_groups) ==
    [cols |-> <<"date", "value", "group", "note">>,
     rows |-> IF sel_groups # {} THEN rows_in_groups(df.rows, sel_groups) ELSE df.rows]

\* lines 434-441: one row per user row whose group coord_map places
reg_df(df) ==
    LET placed == rows_in_groups(df.rows, DOMAIN coord_map)
    IN  [cols |-> <<"name", "lat", "lon", "value">>,
         rows |-> [i \in 1..Len(placed) |->
                     [name  |-> placed[i].group,
                      lat   |-> Deg(coord_map[placed[i].group][1]),
                      lon   |-> Deg(coord_map[placed[i].group][2]),
                      value |-> placed[i].value.v]]]

\* lines 372-458: what tab 2 offers for download
render_tab2(df, sel_groups) ==
    (IF df_filtered(df, sel_groups).rows # <<>>                            \* line 404
     THEN << get_csv_download_link(df_filtered(df, sel_groups),
                                   "user_input_filtered.csv") >>
     ELSE <<>>)
    \o
    (IF reg_df(df).rows # <<>>                                             \* line 442
     THEN << get_csv_download_link(reg_df(df), "user_region_damage.csv") >>
     ELSE <<>>)

---------------------------------------------------------------------------
(* st.cache_data(ttl=3600), line 80: one entry, as the function has no argument *)

TTL == 3600

NoEntry == [valid |-> FALSE, storedAt |-> 0, value |-> NoBundle]

\* an entry is served while it is younger than ttl
CacheLive(c, t) == c.valid /\ t - c.storedAt < TTL

\* expired entries are dropped
CacheExpire(c, t) == IF CacheLive(c, t) THEN c ELSE NoEntry

\* only a returned value is stored; an exception passes through to the caller
CacheStore(c, out, t) ==
    IF out.status = "returned"
    THEN [valid |-> TRUE, storedAt |-> t, value |-> out.bundle]
    ELSE c

---------------------------------------------------------------------------
(* The answers the three remote sources may give *)

StatusCodes == {200, 500}

Early    == <<2025, 1, 1>>
Boundary == <<2025, 7, 18>>

PrecipRowChoices ==
    { [date |-> Iso(Early),    precip |-> Num(10)],
      [date |-> Iso(Boundary), precip |-> Num(20)],
      [date |-> BadDate,       precip |-> Num(30)],
      [date |-> Iso(Early),    precip |-> Str],
      [date |-> MissingDate,   precip |-> Num(40)],
      [date |-> Iso(Early),    precip |-> Absent] }

HasIso(rows) == \E i \in 1..Len(rows) : rows[i].date.k = "iso"

\* an offset is a property of a body that carries at least one date string
Offsets(rows) == IF HasIso(rows) THEN BOOLEAN ELSE {FALSE}

PrecipResponses ==
    { [exc |-> TRUE, status |-> 0, json |-> FALSE, offset |-> FALSE, rows |-> <<>>] }
    \cup { [exc |-> FALSE, status |-> c, json |-> FALSE, offset |-> FALSE, rows |-> <<>>] :
             c \in StatusCodes }
    \cup UNION { { [exc |-> FALSE, status |-> 200, json |-> TRUE, offset |-> o, rows |-> rows] :
                     o \in Offsets(rows) } : rows \in SeqsUpTo(PrecipRowChoices, MaxRows) }

SchoolRowChoices ==
    { [date |-> Iso(Early),    v |-> Num(3)],
      [date |-> Iso(Boundary), v |-> Num(4)],
      [date |-> BadDate,       v |-> Num(5)],
      [date |-> Iso(Early),    v |-> NaN],
      [date |-> Iso(Early),    v |-> Str] }

\* the header line of the CSV: the names of its two columns
SchoolHeaders == { <<"date", "value">>, <<"day", "value">>, <<"date", "closed">> }

SchoolResponses ==
    { [exc |-> TRUE, status |-> 0, empty |-> TRUE, dateCol |-> "", valCol |-> "",
       offset |-> FALSE, rows |-> <<>>] }
    \cup { [exc |-> FALSE, status |-> c, empty |-> TRUE, dateCol |-> "", valCol |-> "",
            offset |-> FALSE, rows |-> <<>>] : c \in StatusCodes }
    \cup UNION { { [exc |-> FALSE, status |-> 200, empty |-> FALSE, dateCol |-> h[1],
                    valCol |-> h[2], offset |-> o, rows |-> rows] :
                     h \in SchoolHeaders, o \in Offsets(rows) } :
                 rows \in SeqsUpTo(SchoolRowChoices, MaxRows) }

FeatureChoices ==
    { [props |-> "full",   geom |-> "point",  lon |-> 127489, lat |-> 36642, count |-> 7, name |-> "Cheongju"],
      [props |-> "absent", geom |-> "absent", lon |-> 0, lat |-> 0, count |-> 0, name |-> ""],
      [props |-> "full",   geom |-> "null",   lon |-> 0, lat |-> 0, count |-> 5, name |-> "Goesan"],
      [props |-> "full",   geom |-> "short",  lon |-> 0, lat |-> 0, count |-> 6, name |-> "Boeun"] }

GeoResponses ==
    { [exc |-> TRUE, status |-> 0, kind |-> "notjson", feats |-> <<>>] }
    \cup { [exc |-> FALSE, status |-> c, kind |-> "notjson", feats |-> <<>>] : c \in StatusCodes }
    \cup { [exc |-> FALSE, status |-> 200, kind |-> "array", feats |-> <<>>] }
    \cup { [exc |-> FALSE, status |-> 200, kind |-> "object", feats |-> fs] :
             fs \in SeqsUpTo(FeatureChoices, MaxFeatures) }

\* generator states np.random may be in when the fallback draws from it
Seeds(r1) == IF PrecipRaises(r1) THEN 0..MaxSeed ELSE {0}

\* what an answer was like: how the GET ended, and what the body let the code find
NotAsked == [kind |-> "none", status |-> 0, shapeOk |-> FALSE, hasDate |-> FALSE,
             hasValue |-> FALSE, hasNumeric |-> FALSE, datesAllBad |-> FALSE]

GetKind(r) == IF r.exc THEN "exception" ELSE IF r.status # 200 THEN "status" ELSE "body"

DatesAllBad(rows) == Len(rows) > 0 /\ ~HasIso(rows)

PrecipSummary(r) ==
    [kind |-> GetKind(r), status |-> r.status,
     shapeOk     |-> r.json,
     hasDate     |-> PrecipHasColumn(r.rows, "date"),
     hasValue    |-> PrecipHasColumn(r.rows, "precip"),
     hasNumeric  |-> FALSE,
     datesAllBad |-> DatesAllBad(r.rows)]

SchoolSummary(r) ==
    [kind |-> GetKind(r), status |-> r.status,
     shapeOk     |-> ~r.empty,
     hasDate     |-> r.dateCol = "date",
     hasValue    |-> r.valCol = "value",
     hasNumeric  |-> SchoolNumericCols(r) # {},
     datesAllBad |-> DatesAllBad(r.rows)]

GeoSummary(r) ==
    [kind |-> GetKind(r), status |-> r.status,
     shapeOk |-> /\ r.kind = "object"
                 /\ \A i \in 1..Len(r.feats) : r.feats[i].geom \in {"point", "absent"},
     hasDate |-> FALSE, hasValue |-> FALSE, hasNumeric |-> FALSE, datesAllBad |-> FALSE]

NoResp   == [precip |-> NotAsked, school |-> NotAsked, geo |-> NotAsked]
NoFb     == [valid |-> FALSE, seed |-> 0, cutoff |-> 0]
NoneFell == [precip |-> FALSE, school |-> FALSE, geo |-> FALSE]

---------------------------------------------------------------------------
(* The script *)

Tick == TTL \div 2

\* the first run of the script starts half an hour before a Seoul midnight
StartTimes == { ParseDate(<<2025, 7, 18>>) - Tick }

Init ==
    /\ now \in StartTimes
    /\ runs = 1
    /\ pc = "start"
    /\ CUTOFF = seoul_midnight_today(now)
    /\ cache = NoEntry
    /\ result = NoResult
    /\ userResult = NoUserResult
    /\ reqlog = <<>>
    /\ precip_df = EmptyTable
    /\ school_actions = EmptyTable
    /\ school_damage_geo = EmptyGeo
    /\ messages = <<>>
    /\ fellBack = NoneFell
    /\ resp = NoResp
    /\ seedUsed = 0
    /\ lastExecAt = -1
    /\ prevFb = NoFb
    /\ downloads = <<>>

\* line 252 when st.cache_data holds a live entry: the body does not run
LoadCached ==
    /\ pc = "start"
    /\ CacheLive(cache, now)
    /\ result' = [status |-> "returned", bundle |-> cache.value]
    /\ pc' = "loaded"
    /\ UNCHANGED <<now, runs, CUTOFF, cache, userResult, reqlog, precip_df,
                   school_actions, school_damage_geo, messages, fellBack, resp,
                   seedUsed, lastExecAt, prevFb, downloads>>

\* line 252 when it holds none: the body runs.  Lines 87-116
FetchPrecip ==
    /\ pc = "start"
    /\ ~CacheLive(cache, now)
    /\ \E r \in PrecipResponses :
         \E seed \in Seeds(r) :
            LET t == TryPrecip(r, seed)
            IN  /\ precip_df' = t.df
                /\ messages' = t.msgs
                /\ fellBack' = [NoneFell EXCEPT !.precip = t.fellBack]
                /\ reqlog' = t.gets
                /\ resp' = [NoResp EXCEPT !.precip = PrecipSummary(r)]
                /\ seedUsed' = seed
    /\ lastExecAt' = now
    /\ pc' = "try2"
    /\ UNCHANGED <<now, runs, CUTOFF, cache, result, userResult, school_actions,
                   school_damage_geo, prevFb, downloads>>

\* FetchSchool inside the try block of the precipitation source: once that one
\* has raised, the school table is the fallback whatever the school source answers
FetchSchoolCoupled ==
    /\ pc = "try2"
    /\ \E r \in SchoolResponses :
            LET t == TrySchool(IF fellBack.precip THEN [r EXCEPT !.exc = TRUE] ELSE r)
            IN  /\ school_actions' = t.df
                /\ messages' = messages \o t.msgs
                /\ fellBack' = [fellBack EXCEPT !.school = t.fellBack]
                /\ reqlog' = reqlog \o t.gets
                /\ resp' = [resp EXCEPT !.school = SchoolSummary(r)]
    /\ pc' = "try3"
    /\ UNCHANGED <<now, runs, CUTOFF, cache, result, userResult, precip_df,
                   school_damage_geo, seedUsed, lastExecAt, prevFb, downloads>>

\* lines 119-149
FetchSchool ==
    /\ pc = "try2"
    /\ \E r \in SchoolResponses :
            LET t == TrySchool(r)
            IN  /\ school_actions' = t.df
                /\ messages' = messages \o t.msgs
                /\ fellBack' = [fellBack EXCEPT !.school = t.fellBack]
                /\ reqlog' = reqlog \o t.gets
                /\ resp' = [resp EXCEPT !.school = SchoolSummary(r)]
    /\ pc' = "try3"
    /\ UNCHANGED <<now, runs, CUTOFF, cache, result, userResult, precip_df,
                   school_damage_geo, seedUsed, lastExecAt, prevFb, downloads>>

\* lines 152-182
FetchGeo ==
    /\ pc = "try3"
    /\ \E r \in GeoResponses :
            LET t == TryGeo(r)
            IN  /\ school_damage_geo' = t.df
                /\ messages' = messages \o t.msgs
                /\ fellBack' = [fellBack EXCEPT !.geo = t.fellBack]
                /\ reqlog' = reqlog \o t.gets
                /\ resp' = [resp EXCEPT !.geo = GeoSummary(r)]
    /\ pc' = "post"
    /\ UNCHANGED <<now, runs, CUTOFF, cache, result, userResult, precip_df,
                   school_actions, seedUsed, lastExecAt, prevFb, downloads>>

\* lines 184-203, and the decorator storing what the body returned
FinishLoad ==
    /\ pc = "post"
    /\ result' = finish_load(precip_df, school_actions, school_damage_geo, messages, CUTOFF)
    /\ cache' = CacheStore(cache, result', now)
    /\ pc' = IF result'.status = "returned" THEN "loaded" ELSE "halted"
    /\ precip_df' = EmptyTable
    /\ school_actions' = EmptyTable
    /\ school_damage_geo' = EmptyGeo
    /\ UNCHANGED <<now, runs, CUTOFF, userResult, reqlog, messages, fellBack, resp,
                   seedUsed, lastExecAt, prevFb, downloads>>

\* lines 265-360: tab 1 is drawn from the bundle, under what the widgets hold
RenderTab1 ==
    /\ pc = "loaded"
    /\ \E agg_opt \in AggOptions :
         \E window \in WindowChoices :
            LET t == render_tab1(result.bundle, agg_opt, window)
            IN  /\ downloads' = t.downloads
                /\ pc' = IF t.raised THEN "halted" ELSE "tab2"
    /\ UNCHANGED <<now, runs, CUTOFF, cache, result, userResult, reqlog, precip_df,
                   school_actions, school_damage_geo, messages, fellBack, resp,
                   seedUsed, lastExecAt, prevFb>>

\* lines 364-458, reached when tab 1 was drawn: the call at line 372, then the
\* rest of tab 2 under the groups the multiselect holds
BuildUser ==
    /\ pc = "tab2"
    /\ userResult' = build_user_input_dataset(CUTOFF)
    /\ \E sel_groups \in {UserGroups(UserFrame), {"closure"}} :
         downloads' = IF userResult'.status = "returned"
                      THEN downloads \o render_tab2(userResult'.df, sel_groups)
                      ELSE downloads
    /\ pc' = IF userResult'.status = "returned" THEN "done" ELSE "halted"
    /\ UNCHANGED <<now, runs, CUTOFF, cache, result, reqlog, precip_df, school_actions,
                   school_damage_geo, messages, fellBack, resp, seedUsed, lastExecAt,
                   prevFb>>

\* the next run of the script (a rerun after an interaction): lines 39-47 run again,
\* the locals of the last run are gone unless the cache still holds its bundle
ScriptStart ==
    /\ pc \in {"halted", "done"}
    /\ runs < MaxRuns
    /\ \E dt \in {Tick} :
         /\ now' = now + dt
         /\ CUTOFF' = seoul_midnight_today(now')
         /\ cache' = CacheExpire(cache, now')
         /\ IF CacheLive(cache, now')
            THEN UNCHANGED <<messages, fellBack, resp, seedUsed>>
            ELSE /\ messages' = <<>>
                 /\ fellBack' = NoneFell
                 /\ resp' = NoResp
                 /\ seedUsed' = 0
    /\ runs' = runs + 1
    /\ pc' = "start"
    /\ result' = NoResult
    /\ userResult' = NoUserResult
    /\ reqlog' = <<>>
    /\ downloads' = <<>>
    /\ prevFb' = IF CUTOFF' # CUTOFF THEN NoFb
                 ELSE IF reqlog # <<>> /\ fellBack.precip
                 THEN [valid |-> TRUE, seed |-> seedUsed, cutoff |-> CUTOFF]
                 ELSE prevFb
    /\ UNCHANGED <<precip_df, school_actions, school_damage_geo, lastExecAt>>

Next ==
    \/ LoadCached
    \/ FetchPrecip
    \/ FetchSchool
    \/ FetchGeo
    \/ FinishLoad
    \/ RenderTab1
    \/ BuildUser
    \/ ScriptStart

Spec == Init /\ [][Next]_vars

---------------------------------------------------------------------------
(* Properties *)

\* the body of load_official_datasets ran in this script run
Executed == reqlog # <<>>

\* the call at line 252 is over, by a return or by an exception
LoadEnded == result.status # "none"

\* the three try blocks of the running or finished body are behind
TriesDone == Executed /\ pc \in {"post", "loaded", "tab2", "halted", "done"}

Contains(msg, word) == \E i \in 1..Len(msg) : msg[i] = word

OkMsg   == [precip |-> MsgPrecipOk,   school |-> MsgSchoolOk,   geo |-> MsgGeoOk]
FailMsg == [precip |-> MsgPrecipFail, school |-> MsgSchoolFail, geo |-> MsgGeoFail]

\* the word of its failure message by which a source is named
SourceWord == [precip |-> "NASA/NOAA", school |-> "gyoyukbu/nyuseu", geo |-> "jiri/wichi"]

AllBefore(rows, cutoff) ==
    \A i \in 1..Len(rows) : rows[i].date.k = "ts" /\ rows[i].date.t < cutoff

\* C1: load_official_datasets never propagates an error: whatever the three
\* sources answer, the call ends by returning a bundle with its three messages.
C1_NeverRaises ==
    LoadEnded => /\ result.status = "returned"
                 /\ Len(result.bundle.messages) = 3

\* C2: every record of the date tables a loader hands back is strictly before
\* CUTOFF, on the success path and on the fallback path alike: each call ends
\* with a filtered table, for load_official_datasets and build_user_input_dataset.
C2_FilteredOnEveryPath ==
    /\ LoadEnded =>
         /\ result.status = "returned"
         /\ AllBefore(result.bundle.precip_ts.rows, CUTOFF)
         /\ AllBefore(result.bundle.school_actions.rows, CUTOFF)
    /\ userResult.status # "none" =>
         /\ userResult.status = "returned"
         /\ AllBefore(userResult.df.rows, CUTOFF)

\* the answer of source s is one of the failures C3 names
NamedFailure(s) ==
    \/ resp[s].kind \in {"exception", "status"}
    \/ s = "precip" /\ resp[s].kind = "body" /\ ~resp[s].hasDate

\* the fallback table of source s after the future-date filter
FilteredFallback(s, cutoff) ==
    CASE s = "precip" -> rows_before(PrecipFallback(seedUsed).rows, cutoff)
      [] s = "school" -> rows_before(SchoolFallback.rows, cutoff)
      [] OTHER        -> GeoFallback.rows

ReturnedRows(s) ==
    CASE s = "precip" -> result.bundle.precip_ts.rows
      [] s = "school" -> result.bundle.school_actions.rows
      [] OTHER        -> result.bundle.school_damage_geo.rows

\* C3: when the GET of a source raises or answers a status other than 200, or the
\* precipitation body lacks the date field, the call returns that source's
\* fallback table and a message that names the source and says silpae (failure),
\* and no success message for it.
C3_FailureGivesFallbackAndMessage ==
    \A i \in 1..3 :
       (Executed /\ LoadEnded /\ NamedFailure(Sources[i])) =>
           /\ result.status = "returned"
           /\ ReturnedRows(Sources[i]) = FilteredFallback(Sources[i], CUTOFF)
           /\ \E j \in 1..Len(result.bundle.messages) :
                 /\ Contains(result.bundle.messages[j], SourceWord[Sources[i]])
                 /\ Contains(result.bundle.messages[j], "silpae")
           /\ \A j \in 1..Len(result.bundle.messages) :
                 result.bundle.messages[j] # OkMsg[Sources[i]]

\* a status-200 body in which the date or the value cannot be located or parsed
FieldsUnusable(s) ==
    /\ resp[s].kind = "body"
    /\ \/ ~resp[s].hasDate
       \/ ~(resp[s].hasValue \/ resp[s].hasNumeric)
       \/ resp[s].datesAllBad

\* C4: a status-200 answer whose date or value field cannot be located or parsed
\* is a failure: the source falls back and its failure message is emitted, never
\* its success message (precipitation JSON and school-action CSV).
C4_UnusableBodyIsFailure ==
    \A i \in 1..2 :
       (TriesDone /\ FieldsUnusable(Sources[i])) =>
           /\ fellBack[Sources[i]]
           /\ messages[i] = FailMsg[Sources[i]]

\* C5: a source that falls back holds its fixed literal fallback table: the
\* school-action and school-damage literals, and for precipitation the same table
\* as the fallback of the load before it under the same cutoff.
C5_FallbackIsFixedLiteral ==
    pc = "post" =>
       /\ fellBack.school => school_actions = SchoolFallback
       /\ fellBack.geo => school_damage_geo = GeoFallback
       /\ (fellBack.precip /\ prevFb.valid /\ prevFb.cutoff = CUTOFF) =>
             precip_df = PrecipFallback(prevFb.seed)

\* C6: a call of load_official_datasets less than 3600 seconds after a call that
\* ran the body issues no request: the body does not run again inside the window,
\* whether the first call succeeded or fell back.
C6_NoRequestInsideWindow ==
    [][ (pc = "start" /\ pc' = "try2") =>
           ~(lastExecAt >= 0 /\ now - lastExecAt < TTL) ]_vars

\* C7: one execution of the body issues exactly one GET per source, in the order
\* precipitation, school-action, school-damage, and none after a failed one.
C7_OneGetPerSourceInOrder ==
    /\ pc = "start" => reqlog = <<>>
    /\ pc = "try2" => reqlog = <<"precip">>
    /\ pc = "try3" => reqlog = <<"precip", "school">>
    /\ pc = "post" => reqlog = Sources
    /\ pc \in {"loaded", "tab2", "halted", "done"} => reqlog \in {<<>>, Sources}

\* all three GETs failed and the body went on to its end with three requests made
C7_Witness ==
    /\ pc = "halted"
    /\ reqlog = Sources
    /\ \A i \in 1..3 : resp[Sources[i]].kind \in {"exception", "status"}
    /\ fellBack.precip /\ fellBack.school /\ fellBack.geo

\* C8: after the three try blocks the message list holds exactly three messages,
\* one per source in source order, the success message of a source exactly when
\* its table was built from the remote answer and its fallback message otherwise;
\* a returned bundle carries that list.
C8_TwoOutcomesPerSource ==
    /\ TriesDone =>
         /\ Len(messages) = 3
         /\ \A i \in 1..3 : messages[i] \in {OkMsg[Sources[i]], FailMsg[Sources[i]]}
    /\ pc = "post" =>
         /\ messages[1] = MsgPrecipOk <=> precip_df # PrecipFallback(seedUsed)
         /\ messages[2] = MsgSchoolOk <=> school_actions # SchoolFallback
         /\ messages[3] = MsgGeoOk <=> school_damage_geo # GeoFallback
    /\ (Executed /\ result.status = "returned") => result.bundle.messages = messages
    /\ result.status = "returned" => Len(result.bundle.messages) = 3

\* a bundle came back with a success and a fallback message side by side
C8_Witness ==
    /\ Executed
    /\ result.status = "returned"
    /\ result.bundle.messages = <<MsgPrecipOk, MsgSchoolOk, MsgGeoFail>>
    /\ result.bundle.school_damage_geo = GeoFallback
    /\ Len(result.bundle.precip_ts.rows) > 0

WellFormed(rows) ==
    \A i \in 1..Len(rows) : rows[i].date.k = "ts" /\ rows[i].value.k = "num"

C10_FallbackScenario ==
    (Executed /\ LoadEnded /\ fellBack.school /\ CUTOFF < ParseDate(<<2025, 7, 18>>)) =>
        /\ result.status = "returned"
        /\ Len(result.bundle.school_actions.rows) = 4
        /\ result.bundle.school_actions.rows =
              << SchoolFallback.rows[1], SchoolFallback.rows[2],
                 SchoolFallback.rows[3], SchoolFallback.rows[5] >>

\* the column layouts the output artifact may have: date, value[, group][, note]
ArtifactHeaders ==
    { <<"date", "value">>, <<"date", "value", "group">>,
      <<"date", "value", "note">>, <<"date", "value", "group", "note">> }

\* C11: every CSV file offered for download has one line per record of the
\* exported table and the columns date, value, optionally followed by group
\* and note, and no other column.
C11_DownloadColumns ==
    \A i \in 1..Len(downloads) :
        /\ Len(downloads[i].csv.lines) = downloads[i].records
        /\ downloads[i].csv.header \in ArtifactHeaders

\* the answer of source s is a body of the expected shape in which the date and
\* the value can be located and some date parses
ValidBody(s) ==
    /\ resp[s].kind = "body"
    /\ resp[s].shapeOk
    /\ s # "geo" => /\ resp[s].hasDate
                    /\ resp[s].hasValue \/ resp[s].hasNumeric
                    /\ ~resp[s].datesAllBad

\* the table the try block of source s left is the fallback table of s
LeftFallback(s) ==
    CASE s = "precip" -> /\ Len(precip_df.rows) = 11      \* the year starts 2015..2025
                         /\ precip_df = PrecipFallback(seedUsed)
      [] s = "school" -> school_actions = SchoolFallback
      [] OTHER        -> school_damage_geo = GeoFallback

\* C12: the three sources are handled independently within one load: once the
\* three try blocks are behind, every source has been asked whatever the others
\* answered, a source whose GET raised or answered a status other than 200 has
\* fallen back, a source that answered a valid body has not, whatever the other
\* two did, and the table a try block left is the fallback exactly when that
\* source fell back; in a returned bundle the location table is the fallback
\* exactly when the location source fell back.
C12_SourcesIndependent ==
    /\ TriesDone =>
         \A i \in 1..3 :
            /\ resp[Sources[i]].kind # "none"
            /\ resp[Sources[i]].kind \in {"exception", "status"} => fellBack[Sources[i]]
            /\ ValidBody(Sources[i]) => ~fellBack[Sources[i]]
    /\ pc = "post" =>
         \A i \in 1..3 : fellBack[Sources[i]] <=> LeftFallback(Sources[i])
    /\ (Executed /\ result.status = "returned") =>
         (fellBack.geo <=> result.bundle.school_damage_geo = GeoFallback)

\* the precipitation GET answered 500 and fell back, the school source answered
\* a valid body and kept its remote table, and the location source was asked
\* and kept its remote table too
C12_Witness ==
    /\ pc = "post"
    /\ resp.precip.kind = "status" /\ fellBack.precip
    /\ ValidBody("school") /\ ~fellBack.school /\ Len(school_actions.rows) > 0
    /\ ValidBody("geo") /\ ~fellBack.geo /\ Len(school_damage_geo.rows) > 0
    /\ reqlog = Sources

=============================================================================
